---- MODULE Spec2Model ----
(***************************************************************************)
(* Model of qwen_ask_api.py (QwenAPIClient and main) and of the prompt of  *)
(* qwen_ask.py.                                                            *)
(*                                                                         *)
(* Python values are tagged records:                                       *)
(*   [t |-> "str",  s |-> <<chars>>]   a str, one string per character     *)
(*   [t |-> "int",  n |-> k]           an int                              *)
(*   [t |-> "none"]                    None                                *)
(*   [t |-> "list", l |-> <<values>>]  a list                              *)
(*   [t |-> "dict", d |-> f]           a dict, f a function from keys      *)
(*                                     (character sequences) to values     *)
(*   [t |-> "msg",  id |-> name]       one of the fixed error messages     *)
(* An evaluation that can raise yields [ok |-> TRUE, val |-> v] or         *)
(* [ok |-> FALSE, exc |-> class name].                                     *)
(***************************************************************************)
EXTENDS Integers, Sequences, FiniteSets, TLC

\* ------------------------------------------------------------------------
\* Bounds of the model
\* ------------------------------------------------------------------------
MaxCalls == 2
MaxFsChanges == 1

\* ------------------------------------------------------------------------
\* Python values and the operations analyze_image applies to them
\* ------------------------------------------------------------------------
PyStr(s) == [t |-> "str", s |-> s]
PyInt(n) == [t |-> "int", n |-> n]
PyNone == [t |-> "none"]
PyList(l) == [t |-> "list", l |-> l]
PyDict(d) == [t |-> "dict", d |-> d]
EmptyDict == PyDict(<<>>)

Ok(v) == [ok |-> TRUE, val |-> v]
Raise(e) == [ok |-> FALSE, exc |-> e]

K_output == <<"o","u","t","p","u","t">>
K_choices == <<"c","h","o","i","c","e","s">>
K_message == <<"m","e","s","s","a","g","e">>
K_content == <<"c","o","n","t","e","n","t">>
K_text == <<"t","e","x","t">>
K_image == <<"i","m","a","g","e">>
K_error == <<"e","r","r","o","r">>
K_raw_content == <<"r","a","w","_","c","o","n","t","e","n","t">>
K_response == <<"r","e","s","p","o","n","s","e">>

Whitespace == {" ", "\n"}
Digits == {"0", "1", "2", "3", "4", "5", "6", "7", "8", "9"}

\* str.startswith(prefix)
StartsWith(s, p) == Len(s) >= Len(p) /\ SubSeq(s, 1, Len(p)) = p
\* str.endswith(suffix)
EndsWith(s, p) == Len(s) >= Len(p) /\ SubSeq(s, Len(s) - Len(p) + 1, Len(s)) = p
\* `sub in s` for two str
IsSubstring(p, s) == \E i \in 1..(Len(s) - Len(p) + 1) : SubSeq(s, i, i + Len(p) - 1) = p

RECURSIVE LStrip(_)
LStrip(s) == IF s # <<>> /\ Head(s) \in Whitespace THEN LStrip(Tail(s)) ELSE s
RECURSIVE RStrip(_)
RStrip(s) == IF s # <<>> /\ s[Len(s)] \in Whitespace THEN RStrip(SubSeq(s, 1, Len(s) - 1)) ELSE s
\* str.strip()
Strip(s) == RStrip(LStrip(s))

\* The Python expression `key in x`, key a str.
PyIn(key, x) ==
  CASE x.t = "dict" -> Ok(key \in DOMAIN x.d)
    [] x.t = "str" -> Ok(IsSubstring(key, x.s))
    [] x.t = "list" -> Ok(\E i \in 1..Len(x.l) : x.l[i].t = "str" /\ x.l[i].s = key)
    [] OTHER -> Raise("TypeError")

\* The Python expression x[key], key a str.
PyGetKey(x, key) ==
  CASE x.t = "dict" -> IF key \in DOMAIN x.d THEN Ok(x.d[key]) ELSE Raise("KeyError")
    [] OTHER -> Raise("TypeError")

\* The Python expression x[0].
PyGetFirst(x) ==
  CASE x.t = "list" -> IF Len(x.l) > 0 THEN Ok(x.l[1]) ELSE Raise("IndexError")
    [] x.t = "str" -> IF Len(x.s) > 0 THEN Ok(PyStr(<<x.s[1]>>)) ELSE Raise("IndexError")
    [] x.t = "dict" -> Raise("KeyError")
    [] OTHER -> Raise("TypeError")

\* Decimal digits of a natural number.
RECURSIVE DigitsOf(_)
DigitsOf(n) ==
  LET d == <<"0", "1", "2", "3", "4", "5", "6", "7", "8", "9">>[(n % 10) + 1]
  IN IF n < 10 THEN <<d>> ELSE Append(DigitsOf(n \div 10), d)

\* repr() of a str: the text between single quotes (no quote in the alphabet).
ReprStr(s) == <<"'">> \o s \o <<"'">>

\* str(x) of a value that is neither a str nor a list, for the values the
\* endpoint's content can take here: int, None, and a dict of at most one
\* key whose value is a str, an int or None.
PyStrOf(x) ==
  LET Atom(v) == CASE v.t = "int" -> DigitsOf(v.n)
                   [] v.t = "none" -> <<"N", "o", "n", "e">>
                   [] v.t = "str" -> ReprStr(v.s)
                   [] OTHER -> <<"?">>
  IN CASE x.t = "dict" ->
            IF DOMAIN x.d = {} THEN <<"{", "}">>
            ELSE LET k == CHOOSE k \in DOMAIN x.d : TRUE
                 IN <<"{">> \o ReprStr(k) \o <<":", " ">> \o Atom(x.d[k]) \o <<"}">>
       [] OTHER -> Atom(x)

\* ------------------------------------------------------------------------
\* json.loads on the characters the answers of the model are drawn from:
\* objects, arrays, strings without escapes, non-negative integers without
\* fraction or exponent, and the literals null, true, false and NaN.
\* A parse yields [ok, val, pos], pos the index after the value.
\* ------------------------------------------------------------------------
At(s, i) == IF i >= 1 /\ i <= Len(s) THEN s[i] ELSE "EOF"
MatchAt(s, i, lit) == i + Len(lit) - 1 <= Len(s) /\ SubSeq(s, i, i + Len(lit) - 1) = lit
ParseOk(v, p) == [ok |-> TRUE, val |-> v, pos |-> p]
ParseFail == [ok |-> FALSE]

RECURSIVE SkipWs(_, _)
SkipWs(s, i) == IF At(s, i) \in Whitespace THEN SkipWs(s, i + 1) ELSE i

RECURSIVE NumEnd(_, _)
NumEnd(s, i) == IF At(s, i) \in Digits THEN NumEnd(s, i + 1) ELSE i

DigitVal(c) == CHOOSE n \in 0..9 : DigitsOf(n) = <<c>>
RECURSIVE NumVal(_)
NumVal(ds) == IF ds = <<>> THEN 0 ELSE NumVal(SubSeq(ds, 1, Len(ds) - 1)) * 10 + DigitVal(ds[Len(ds)])

\* s[i] is a digit
ParseNumber(s, i) ==
  IF s[i] = "0" THEN ParseOk(PyInt(0), i + 1)
  ELSE LET j == NumEnd(s, i) IN ParseOk(PyInt(NumVal(SubSeq(s, i, j - 1))), j)

\* s[i] is the opening quote; a control character inside the string is an
\* error (strict mode)
ParseString(s, i) ==
  LET closing == {j \in (i + 1)..Len(s) : s[j] = "\""}
  IN IF closing = {} THEN ParseFail
     ELSE LET j == CHOOSE j \in closing : \A k \in closing : j <= k
          IN IF \E k \in (i + 1)..(j - 1) : s[k] = "\n" THEN ParseFail
             ELSE ParseOk(PyStr(SubSeq(s, i + 1, j - 1)), j + 1)

RECURSIVE ParseValue(_, _)
RECURSIVE ParseArrayRest(_, _, _)
RECURSIVE ParseObjectRest(_, _, _)

ParseValue(s, i) ==
  LET c == At(s, i)
  IN CASE c = "{" -> LET j == SkipWs(s, i + 1)
                     IN IF At(s, j) = "}" THEN ParseOk(EmptyDict, j + 1)
                        ELSE ParseObjectRest(s, j, <<>>)
       [] c = "[" -> LET j == SkipWs(s, i + 1)
                     IN IF At(s, j) = "]" THEN ParseOk(PyList(<<>>), j + 1)
                        ELSE ParseArrayRest(s, j, <<>>)
       [] c = "\"" -> ParseString(s, i)
       [] c \in Digits -> ParseNumber(s, i)
       [] c = "n" /\ MatchAt(s, i, <<"n", "u", "l", "l">>) -> ParseOk(PyNone, i + 4)
       [] c = "t" /\ MatchAt(s, i, <<"t", "r", "u", "e">>) -> ParseOk([t |-> "bool", b |-> TRUE], i + 4)
       [] c = "f" /\ MatchAt(s, i, <<"f", "a", "l", "s", "e">>) -> ParseOk([t |-> "bool", b |-> FALSE], i + 5)
       [] c = "N" /\ MatchAt(s, i, <<"N", "a", "N">>) -> ParseOk([t |-> "float", f |-> "nan"], i + 3)
       [] OTHER -> ParseFail

\* the items of an array from index i on, acc the items already parsed
ParseArrayRest(s, i, acc) ==
  LET r == ParseValue(s, i)
  IN IF ~r.ok THEN ParseFail
     ELSE LET j == SkipWs(s, r.pos)
          IN CASE At(s, j) = "]" -> ParseOk(PyList(Append(acc, r.val)), j + 1)
               [] At(s, j) = "," -> ParseArrayRest(s, SkipWs(s, j + 1), Append(acc, r.val))
               [] OTHER -> ParseFail

\* the members of an object from index i on, d the members already parsed;
\* a repeated key keeps its last value
ParseObjectRest(s, i, d) ==
  IF At(s, i) # "\"" THEN ParseFail
  ELSE LET k == ParseString(s, i)
       IN IF ~k.ok THEN ParseFail
          ELSE LET c == SkipWs(s, k.pos)
               IN IF At(s, c) # ":" THEN ParseFail
                  ELSE LET r == ParseValue(s, SkipWs(s, c + 1))
                       IN IF ~r.ok THEN ParseFail
                          ELSE LET j == SkipWs(s, r.pos)
                                   nd == (k.val.s :> r.val) @@ d
                               IN CASE At(s, j) = "}" -> ParseOk(PyDict(nd), j + 1)
                                    [] At(s, j) = "," -> ParseObjectRest(s, SkipWs(s, j + 1), nd)
                                    [] OTHER -> ParseFail

\* json.loads(s): one value between optional whitespace, nothing after it
JsonLoads(s) ==
  LET r == ParseValue(s, SkipWs(s, 1))
  IN IF r.ok /\ SkipWs(s, r.pos) = Len(s) + 1 THEN Ok(r.val) ELSE Raise("JSONDecodeError")

\* ------------------------------------------------------------------------
\* The prompts. A text is the sequence of its Unicode code points; each line
\* below is one string literal of the source, in order, joined as Python
\* joins adjacent literals (non-ASCII characters show as ? in the comment).
\* ------------------------------------------------------------------------
\* QwenAPIClient.create_prompt()
create_prompt ==
  <<20320,26159,19968,20301,39550,39542,22330,26223,26631,27880,19987,23478,12290,10,10>>  \* line 59: ?????????????\n\n
  \o <<36755,20837,65306,10>>  \* line 60: ???\n
  \o <<49,46,32,36755,20837,22270,29255,26159,36710,36733,30456,26426,25293,25668,30340,19968,24352,22270,29255,12290,10,10>>  \* line 61: 1. ?????????????????\n\n
  \o <<20219,21153,65306,10>>  \* line 62: ???\n
  \o <<49,46,32,26816,26597,20320,24403,21069,25152,22788,30340,22320,26041,26159,21542,26159,20197,19979,20301,32622,65306,10>>  \* line 63: 1. ??????????????????\n
  \o <<45,32,36335,21475,10>>  \* line 64: - ??\n
  \o <<45,32,30452,36335,10>>  \* line 65: - ??\n
  \o <<45,32,21277,36947,10>>  \* line 66: - ??\n
  \o <<45,32,24367,36947,10,10>>  \* line 67: - ??\n\n
  \o <<50,46,32,26816,26597,22270,29255,20013,26159,21542,23384,22312,20197,19979,29289,20307,12290,36710,36742,65288,118,101,104,105,99,108,101,65289,21487,20197,26159,27773,36710,12289,20844,20132,36710,12289,21345,36710,12289,25705,25176,36710,25163,12289,28369,26495,36710,31561,12290,20132,36890,20803,32032,65288,116,114,97,102,102,105,99,95,101,108,101,109,101,110,116,65289,21253,25324,20132,36890,26631,24535,21644,20132,36890,20449,21495,28783,12290,36947,36335,21361,38505,65288,114,111,97,100,95,104,97,122,97,114,100,65289,21487,33021,21253,25324,21361,38505,36947,36335,26465,20214,12289,36947,36335,30862,29255,12289,38556,30861,29289,31561,12290,20914,31361,36710,36742,65288,99,111,110,102,108,105,99,116,105,110,103,95,118,101,104,105,99,108,101,65289,26159,25351,21487,33021,19982,33258,36710,26410,26469,36335,24452,21457,29983,28508,22312,20914,31361,30340,36710,36742,12290,38656,23457,35745,30340,23545,35937,31867,21035,65306,10>>  \* line 68: 2. ?????????????????vehicle?????????????????????????????traffic_element???????????????????road_hazard???????????????????????????conflicting_vehicle???????????????????????????????\n
  \o <<45,32,110,101,97,114,98,121,95,118,101,104,105,99,108,101,32,40,38468,36817,36710,36742,41,10>>  \* line 69: - nearby_vehicle (????)\n
  \o <<45,32,112,101,100,101,115,116,114,105,97,110,32,40,34892,20154,41,10>>  \* line 70: - pedestrian (??)\n
  \o <<45,32,99,121,99,108,105,115,116,32,40,39569,34892,32773,41,10>>  \* line 71: - cyclist (???)\n
  \o <<45,32,99,111,110,115,116,114,117,99,116,105,111,110,32,40,26045,24037,41,10>>  \* line 72: - construction (??)\n
  \o <<45,32,116,114,97,102,102,105,99,95,101,108,101,109,101,110,116,32,40,20132,36890,20803,32032,41,10>>  \* line 73: - traffic_element (????)\n
  \o <<45,32,119,101,97,116,104,101,114,95,99,111,110,100,105,116,105,111,110,32,40,22825,27668,26465,20214,41,10>>  \* line 74: - weather_condition (????)\n
  \o <<45,32,114,111,97,100,95,104,97,122,97,114,100,32,40,36947,36335,21361,38505,41,10>>  \* line 75: - road_hazard (????)\n
  \o <<45,32,101,109,101,114,103,101,110,99,121,95,118,101,104,105,99,108,101,32,40,32039,24613,36710,36742,41,10>>  \* line 76: - emergency_vehicle (????)\n
  \o <<45,32,97,110,105,109,97,108,32,40,21160,29289,41,10>>  \* line 77: - animal (??)\n
  \o <<45,32,115,112,101,99,105,97,108,95,118,101,104,105,99,108,101,32,40,29305,27530,36710,36742,41,10>>  \* line 78: - special_vehicle (????)\n
  \o <<45,32,99,111,110,102,108,105,99,116,105,110,103,95,118,101,104,105,99,108,101,32,40,20914,31361,36710,36742,41,10>>  \* line 79: - conflicting_vehicle (????)\n
  \o <<45,32,100,111,111,114,95,111,112,101,110,105,110,103,95,118,101,104,105,99,108,101,32,40,24320,38376,36710,36742,41,10>>  \* line 80: - door_opening_vehicle (????)\n
  \o <<51,46,32,23545,27599,20010,31867,21035,36755,20986,34,121,101,115,34,25110,34,110,111,34,65288,19981,33021,36951,28431,65289,12290,10,10>>  \* line 81: 3. ???????"yes"?"no"???????\n\n
  \o <<36755,20986,26684,24335,65288,20005,26684,30340,74,83,79,78,65292,26080,39069,22806,38190,65292,26080,27880,37322,65289,65306,10,10>>  \* line 82: ????????JSON???????????\n\n
  \o <<123,10>>  \* line 83: {\n
  \o <<34,115,99,101,110,97,114,105,111,115,34,58,32,123,10>>  \* line 84: "scenarios": {\n
  \o <<34,106,117,110,99,116,105,111,110,34,58,32,34,121,101,115,32,124,32,110,111,34,44,10>>  \* line 85: "junction": "yes | no",\n
  \o <<34,115,116,114,97,105,103,104,116,95,114,111,97,100,34,58,32,34,121,101,115,32,124,32,110,111,34,44,10>>  \* line 86: "straight_road": "yes | no",\n
  \o <<34,114,97,109,112,95,101,110,116,114,97,110,99,101,34,58,32,34,121,101,115,32,124,32,110,111,34,44,10>>  \* line 87: "ramp_entrance": "yes | no",\n
  \o <<34,114,97,109,112,95,101,120,105,116,34,58,32,34,121,101,115,32,124,32,110,111,34,44,10>>  \* line 88: "ramp_exit": "yes | no",\n
  \o <<34,99,117,114,118,101,34,58,32,34,121,101,115,32,124,32,110,111,34,10>>  \* line 89: "curve": "yes | no"\n
  \o <<125,44,10>>  \* line 90: },\n
  \o <<34,99,114,105,116,105,99,97,108,95,111,98,106,101,99,116,115,34,58,32,123,10>>  \* line 91: "critical_objects": {\n
  \o <<34,110,101,97,114,98,121,95,118,101,104,105,99,108,101,34,58,32,34,121,101,115,32,124,32,110,111,34,44,10>>  \* line 92: "nearby_vehicle": "yes | no",\n
  \o <<34,112,101,100,101,115,116,114,105,97,110,34,58,32,34,121,101,115,32,124,32,110,111,34,44,10>>  \* line 93: "pedestrian": "yes | no",\n
  \o <<34,99,121,99,108,105,115,116,34,58,32,34,121,101,115,32,124,32,110,111,34,44,10>>  \* line 94: "cyclist": "yes | no",\n
  \o <<34,99,111,110,115,116,114,117,99,116,105,111,110,34,58,32,34,121,101,115,32,124,32,110,111,34,44,10>>  \* line 95: "construction": "yes | no",\n
  \o <<34,116,114,97,102,102,105,99,95,101,108,101,109,101,110,116,34,58,32,34,121,101,115,32,124,32,110,111,34,44,10>>  \* line 96: "traffic_element": "yes | no",\n
  \o <<34,119,101,97,116,104,101,114,95,99,111,110,100,105,116,105,111,110,34,58,32,34,121,101,115,32,124,32,110,111,34,44,10>>  \* line 97: "weather_condition": "yes | no",\n
  \o <<34,114,111,97,100,95,104,97,122,97,114,100,34,58,32,34,121,101,115,32,124,32,110,111,34,44,10>>  \* line 98: "road_hazard": "yes | no",\n
  \o <<34,101,109,101,114,103,101,110,99,121,95,118,101,104,105,99,108,101,34,58,32,34,121,101,115,32,124,32,110,111,34,44,10>>  \* line 99: "emergency_vehicle": "yes | no",\n
  \o <<34,97,110,105,109,97,108,34,58,32,34,121,101,115,32,124,32,110,111,34,44,10>>  \* line 100: "animal": "yes | no",\n
  \o <<34,115,112,101,99,105,97,108,95,118,101,104,105,99,108,101,34,58,32,34,121,101,115,32,124,32,110,111,34,44,10>>  \* line 101: "special_vehicle": "yes | no",\n
  \o <<34,99,111,110,102,108,105,99,116,105,110,103,95,118,101,104,105,99,108,101,34,58,32,34,121,101,115,32,124,32,110,111,34,44,10>>  \* line 102: "conflicting_vehicle": "yes | no",\n
  \o <<34,100,111,111,114,95,111,112,101,110,105,110,103,95,118,101,104,105,99,108,101,34,58,32,34,121,101,115,32,124,32,110,111,34,10>>  \* line 103: "door_opening_vehicle": "yes | no"\n
  \o <<125,10>>  \* line 104: }\n
  \o <<125>>  \* line 105: }

\* the "text" entry of the user message of qwen_ask.py
messages_text ==
  <<20320,26159,19968,20301,39550,39542,22330,26223,26631,27880,19987,23478,12290,10,10>>  \* line 39: ?????????????\n\n
  \o <<36755,20837,65306,10>>  \* line 40: ???\n
  \o <<49,46,32,36755,20837,22270,29255,26159,36710,36733,30456,26426,25293,25668,30340,19968,24352,22270,29255,12290,10,10>>  \* line 41: 1. ?????????????????\n\n
  \o <<20219,21153,65306,10>>  \* line 42: ???\n
  \o <<49,46,32,26816,26597,20320,24403,21069,25152,22788,30340,22320,26041,26159,21542,26159,20197,19979,20301,32622,65306,10>>  \* line 43: 1. ??????????????????\n
  \o <<45,32,36335,21475,10>>  \* line 44: - ??\n
  \o <<45,32,30452,36335,10>>  \* line 45: - ??\n
  \o <<45,32,21277,36947,10>>  \* line 46: - ??\n
  \o <<45,32,24367,36947,10,10>>  \* line 47: - ??\n\n
  \o <<50,46,32,26816,26597,22270,29255,20013,26159,21542,23384,22312,20197,19979,29289,20307,12290,36710,36742,65288,118,101,104,105,99,108,101,65289,21487,20197,26159,27773,36710,12289,20844,20132,36710,12289,21345,36710,12289,25705,25176,36710,25163,12289,28369,26495,36710,31561,12290,20132,36890,20803,32032,65288,116,114,97,102,102,105,99,95,101,108,101,109,101,110,116,65289,21253,25324,20132,36890,26631,24535,21644,20132,36890,20449,21495,28783,12290,36947,36335,21361,38505,65288,114,111,97,100,95,104,97,122,97,114,100,65289,21487,33021,21253,25324,21361,38505,36947,36335,26465,20214,12289,36947,36335,30862,29255,12289,38556,30861,29289,31561,12290,20914,31361,36710,36742,65288,99,111,110,102,108,105,99,116,105,110,103,95,118,101,104,105,99,108,101,65289,26159,25351,21487,33021,19982,33258,36710,26410,26469,36335,24452,21457,29983,28508,22312,20914,31361,30340,36710,36742,12290,38656,23457,35745,30340,23545,35937,31867,21035,65306,10>>  \* line 48: 2. ?????????????????vehicle?????????????????????????????traffic_element???????????????????road_hazard???????????????????????????conflicting_vehicle???????????????????????????????\n
  \o <<45,32,110,101,97,114,98,121,95,118,101,104,105,99,108,101,32,40,38468,36817,36710,36742,41,10>>  \* line 49: - nearby_vehicle (????)\n
  \o <<45,32,112,101,100,101,115,116,114,105,97,110,32,40,34892,20154,41,10>>  \* line 50: - pedestrian (??)\n
  \o <<45,32,99,121,99,108,105,115,116,32,40,39569,34892,32773,41,10>>  \* line 51: - cyclist (???)\n
  \o <<45,32,99,111,110,115,116,114,117,99,116,105,111,110,32,40,26045,24037,41,10>>  \* line 52: - construction (??)\n
  \o <<45,32,116,114,97,102,102,105,99,95,101,108,101,109,101,110,116,32,40,20132,36890,20803,32032,41,10>>  \* line 53: - traffic_element (????)\n
  \o <<45,32,119,101,97,116,104,101,114,95,99,111,110,100,105,116,105,111,110,32,40,22825,27668,26465,20214,41,10>>  \* line 54: - weather_condition (????)\n
  \o <<45,32,114,111,97,100,95,104,97,122,97,114,100,32,40,36947,36335,21361,38505,41,10>>  \* line 55: - road_hazard (????)\n
  \o <<45,32,101,109,101,114,103,101,110,99,121,95,118,101,104,105,99,108,101,32,40,32039,24613,36710,36742,41,10>>  \* line 56: - emergency_vehicle (????)\n
  \o <<45,32,97,110,105,109,97,108,32,40,21160,29289,41,10>>  \* line 57: - animal (??)\n
  \o <<45,32,115,112,101,99,105,97,108,95,118,101,104,105,99,108,101,32,40,29305,27530,36710,36742,41,10>>  \* line 58: - special_vehicle (????)\n
  \o <<45,32,99,111,110,102,108,105,99,116,105,110,103,95,118,101,104,105,99,108,101,32,40,20914,31361,36710,36742,41,10>>  \* line 59: - conflicting_vehicle (????)\n
  \o <<45,32,100,111,111,114,95,111,112,101,110,105,110,103,95,118,101,104,105,99,108,101,32,40,24320,38376,36710,36742,41,10>>  \* line 60: - door_opening_vehicle (????)\n
  \o <<51,46,32,23545,27599,20010,31867,21035,36755,20986,8220,121,101,115,8221,25110,8220,110,111,8221,65288,19981,33021,36951,28431,65289,12290,10,10>>  \* line 61: 3. ????????yes???no????????\n\n
  \o <<36755,20986,26684,24335,65288,20005,26684,30340,74,83,79,78,65292,26080,39069,22806,38190,65292,26080,27880,37322,65289,65306,10,10>>  \* line 62: ????????JSON???????????\n\n
  \o <<123,10>>  \* line 63: {\n
  \o <<34,115,99,101,110,97,114,105,111,115,34,58,32,123,10>>  \* line 64: "scenarios": {\n
  \o <<34,106,117,110,99,116,105,111,110,34,58,32,34,121,101,115,32,124,32,110,111,34,44,10>>  \* line 65: "junction": "yes | no",\n
  \o <<34,115,116,114,97,105,103,104,116,95,114,111,97,100,34,58,32,34,121,101,115,32,124,32,110,111,34,44,10>>  \* line 66: "straight_road": "yes | no",\n
  \o <<34,114,97,109,112,95,101,110,116,114,97,110,99,101,34,58,32,34,121,101,115,32,124,32,110,111,34,44,10>>  \* line 67: "ramp_entrance": "yes | no",\n
  \o <<34,114,97,109,112,95,101,120,105,116,34,58,32,34,121,101,115,32,124,32,110,111,34,44,10>>  \* line 68: "ramp_exit": "yes | no",\n
  \o <<34,99,117,114,118,101,34,58,32,34,121,101,115,32,124,32,110,111,34,10>>  \* line 69: "curve": "yes | no"\n
  \o <<125,44,10>>  \* line 70: },\n
  \o <<34,99,114,105,116,105,99,97,108,95,111,98,106,101,99,116,115,34,58,32,123,10>>  \* line 71: "critical_objects": {\n
  \o <<34,110,101,97,114,98,121,95,118,101,104,105,99,108,101,34,58,32,34,121,101,115,32,124,32,110,111,34,44,10>>  \* line 72: "nearby_vehicle": "yes | no",\n
  \o <<34,112,101,100,101,115,116,114,105,97,110,34,58,32,34,121,101,115,32,124,32,110,111,34,44,10>>  \* line 73: "pedestrian": "yes | no",\n
  \o <<34,99,121,99,108,105,115,116,34,58,32,34,121,101,115,32,124,32,110,111,34,44,10>>  \* line 74: "cyclist": "yes | no",\n
  \o <<34,99,111,110,115,116,114,117,99,116,105,111,110,34,58,32,34,121,101,115,32,124,32,110,111,34,44,10>>  \* line 75: "construction": "yes | no",\n
  \o <<34,116,114,97,102,102,105,99,95,101,108,101,109,101,110,116,34,58,32,34,121,101,115,32,124,32,110,111,34,44,10>>  \* line 76: "traffic_element": "yes | no",\n
  \o <<34,119,101,97,116,104,101,114,95,99,111,110,100,105,116,105,111,110,34,58,32,34,121,101,115,32,124,32,110,111,34,44,10>>  \* line 77: "weather_condition": "yes | no",\n
  \o <<34,114,111,97,100,95,104,97,122,97,114,100,34,58,32,34,121,101,115,32,124,32,110,111,34,44,10>>  \* line 78: "road_hazard": "yes | no",\n
  \o <<34,101,109,101,114,103,101,110,99,121,95,118,101,104,105,99,108,101,34,58,32,34,121,101,115,32,124,32,110,111,34,44,10>>  \* line 79: "emergency_vehicle": "yes | no",\n
  \o <<34,97,110,105,109,97,108,34,58,32,34,121,101,115,32,124,32,110,111,34,44,10>>  \* line 80: "animal": "yes | no",\n
  \o <<34,115,112,101,99,105,97,108,95,118,101,104,105,99,108,101,34,58,32,34,121,101,115,32,124,32,110,111,34,44,10>>  \* line 81: "special_vehicle": "yes | no",\n
  \o <<34,99,111,110,102,108,105,99,116,105,110,103,95,118,101,104,105,99,108,101,34,58,32,34,121,101,115,32,124,32,110,111,34,44,10>>  \* line 82: "conflicting_vehicle": "yes | no",\n
  \o <<34,100,111,111,114,95,111,112,101,110,105,110,103,95,118,101,104,105,99,108,101,34,58,32,34,121,101,115,32,124,32,110,111,34,10>>  \* line 83: "door_opening_vehicle": "yes | no"\n
  \o <<125,10>>  \* line 84: }\n
  \o <<125>>  \* line 85: }

\* ------------------------------------------------------------------------
\* QwenAPIClient
\* ------------------------------------------------------------------------
IMAGE_PATH == "data/test.jpg"
DEFAULT_MODEL == "qwen2.5-vl-32b"
TIMEOUT == 60
MAX_TOKENS == 512
BASE_URL == "https://dashscope.aliyuncs.com/api/v1/services/aigc/multimodal-generation/generation"

NoClient == [constructed |-> FALSE]

\* QwenAPIClient.__init__(api_key, model)
NewClient(api_key, model) ==
  [constructed |-> TRUE,
   api_key |-> api_key,
   model |-> model,
   base_url |-> BASE_URL,
   available_models |-> ("qwen2.5-vl-32b" :> "qwen-vl-plus") @@ ("qwen2.5-vl-72b" :> "qwen-vl-max")]

\* What a path holds: nothing, an image of some mode, or bytes that are no image.
FileKinds == {"absent", "RGB", "RGBA", "P", "garbage"}

\* os.path.exists(image_path)
Exists(kind) == kind # "absent"

\* encode_image_to_base64 on a file of the given kind: Image.open raises on a
\* missing file or on bytes that are no image, an RGBA image is converted to
\* RGB, and the JPEG writer refuses a palette image.
encode_image_to_base64(kind) ==
  CASE kind = "absent" -> Raise("FileNotFoundError")
    [] kind = "garbage" -> Raise("UnidentifiedImageError")
    [] kind = "P" -> Raise("OSError")
    [] kind = "RGBA" -> Ok([enc |-> "base64", format |-> "JPEG", mode |-> "RGB", of |-> kind])
    [] OTHER -> Ok([enc |-> "base64", format |-> "JPEG", mode |-> kind, of |-> kind])

\* self.available_models.get(self.model, self.model)
ActualModel(c) ==
  IF c.model \in DOMAIN c.available_models THEN c.available_models[c.model] ELSE c.model

\* headers and payload of the request
BuildRequest(c, image_base64) ==
  [url |-> c.base_url,
   timeout |-> TIMEOUT,
   headers |-> [Authorization |-> <<"Bearer ", c.api_key>>, ContentType |-> "application/json"],
   payload |-> [model |-> ActualModel(c),
                role |-> "user",
                image |-> <<"data:image/jpeg;base64,", image_base64>>,
                text |-> create_prompt,
                temperature |-> "0.1",
                max_tokens |-> MAX_TOKENS]]

\* the exception classes that derive from requests.exceptions.RequestException
RequestExceptions == {"ConnectionError", "Timeout", "HTTPError", "RequestsJSONDecodeError"}

ErrorDict(id, e) == PyDict(K_error :> [t |-> "msg", id |-> id, e |-> e])
\* {"error": "JSON...", "raw_content": content}
JsonErrorDict(content) ==
  PyDict((K_error :> [t |-> "msg", id |-> "json_parse_failed", e |-> "JSONDecodeError"])
         @@ (K_raw_content :> PyStr(content)))
\* {"error": "API...", "response": result}
FormatErrorDict(result) ==
  PyDict((K_error :> [t |-> "msg", id |-> "api_response_format", e |-> "none"])
         @@ (K_response :> result))

Returned(v) == [returned |-> TRUE, val |-> v]
Propagated(e) == [returned |-> FALSE, exc |-> e]

\* OuterExcept without its second clause: only a RequestException is caught
OuterExceptRequestOnly(e) ==
  IF e \in RequestExceptions THEN Returned(ErrorDict("request_failed", e))
  ELSE Propagated(e)

\* the two except clauses of the outer try, for an exception e raised in it
OuterExcept(e) ==
  IF e \in RequestExceptions THEN Returned(ErrorDict("request_failed", e))
  ELSE Returned(ErrorDict("processing_failed", e))

\* lines 166-167: the test of the response's shape and the extraction of the
\* content; "else" is the branch of line 192
ExtractContent(result) ==
  LET hasOutput == PyIn(K_output, result)
  IN IF ~hasOutput.ok THEN [kind |-> "raise", exc |-> hasOutput.exc]
     ELSE IF ~hasOutput.val THEN [kind |-> "else"]
     ELSE LET output == PyGetKey(result, K_output)
          IN IF ~output.ok THEN [kind |-> "raise", exc |-> output.exc]
             ELSE LET hasChoices == PyIn(K_choices, output.val)
                  IN IF ~hasChoices.ok THEN [kind |-> "raise", exc |-> hasChoices.exc]
                     ELSE IF ~hasChoices.val THEN [kind |-> "else"]
                     ELSE LET choices == PyGetKey(output.val, K_choices)
                              first == IF choices.ok THEN PyGetFirst(choices.val) ELSE choices
                              message == IF first.ok THEN PyGetKey(first.val, K_message) ELSE first
                              content == IF message.ok THEN PyGetKey(message.val, K_content) ELSE message
                          IN IF content.ok THEN [kind |-> "content", val |-> content.val]
                             ELSE [kind |-> "raise", exc |-> content.exc]

\* lines 170-175: "make sure content is a string"
ReduceContent(content) ==
  IF content.t = "list" /\ Len(content.l) > 0
  THEN LET hasText == PyIn(K_text, content.l[1])
       IN IF ~hasText.ok THEN hasText
          ELSE IF hasText.val THEN PyGetKey(content.l[1], K_text)
          ELSE Ok(content.l[1])
  ELSE IF content.t = "list" THEN Ok(PyStr(<<>>))
  ELSE IF content.t # "str" THEN Ok(PyStr(PyStrOf(content)))
  ELSE Ok(content)

\* the character U+0060 (a string literal cannot hold it)
BQ == "BACKQUOTE"
FENCE_JSON == <<BQ, BQ, BQ, "j", "s", "o", "n">>
FENCE == <<BQ, BQ, BQ>>

\* lines 180-184: the clean-up of the markdown fence; a value without
\* startswith raises AttributeError
StripFence(content) ==
  IF content.t # "str" THEN Raise("AttributeError")
  ELSE LET a == IF StartsWith(content.s, FENCE_JSON)
                THEN SubSeq(content.s, 8, Len(content.s)) ELSE content.s
           b == IF EndsWith(a, FENCE) THEN SubSeq(a, 1, Len(a) - 3) ELSE a
       IN Ok(Strip(b))

\* ------------------------------------------------------------------------
\* Inputs: what the endpoint can answer
\* ------------------------------------------------------------------------
\* JSON documents: {"a":"yes"}  [1]  7
DocObject == <<"{", "\"", "a", "\"", ":", "\"", "y", "e", "s", "\"", "}">>
DocArray == <<"[", "1", "]">>
DocNumber == <<"7">>
Docs == {DocObject, DocArray, DocNumber}

\* A document in a markdown fence: opening marker, newline, document,
\* newline, closing marker.
Fenced(open, J) == open \o <<"\n">> \o J \o <<"\n">> \o FENCE
\* optional whitespace around a text
Padded(pre, s, post) == pre \o s \o post

\* the ways an answer can carry a document J
Wrappings(J) ==
  {J,
   Padded(<<" ">>, J, <<"\n">>),
   Fenced(FENCE_JSON, J),
   Fenced(FENCE, J),
   Padded(<<" ">>, Fenced(FENCE_JSON, J), <<>>),
   Padded(<<>>, Fenced(FENCE_JSON, J), <<"\n">>)}

\* answers that carry no JSON document
OtherTexts ==
  {<<>>,
   <<"y", "e", "s">>,
   FENCE_JSON \o <<"\n", "{", "\n">> \o FENCE,
   <<"t", "e", "x", "t">>}

AnswerTexts == UNION {Wrappings(J) : J \in Docs} \cup OtherTexts

\* message contents that are not a str
OtherContents ==
  {PyList(<<>>),
   PyList(<<PyDict(K_text :> PyStr(DocObject))>>),
   PyList(<<PyDict(K_text :> PyNone)>>),
   PyList(<<PyDict(K_image :> PyStr(<<"x">>))>>),
   PyList(<<PyStr(<<"a", " ", "t", "e", "x", "t">>)>>),
   PyList(<<PyStr(DocObject)>>),
   PyList(<<PyInt(5)>>),
   PyList(<<PyList(<<PyStr(K_text)>>)>>),
   PyList(<<PyList(<<>>)>>),
   PyNone,
   PyInt(5),
   EmptyDict}

Contents == {PyStr(s) : s \in AnswerTexts} \cup OtherContents

\* the response body the service documents, around a content
BodyOf(content) ==
  PyDict(K_output :> PyDict(K_choices :> PyList(<<PyDict(K_message :> PyDict(K_content :> content))>>)))

\* bodies of another shape
OtherBodies ==
  {PyList(<<>>),
   PyInt(1),
   EmptyDict,
   PyDict(K_output :> EmptyDict),
   PyDict(K_output :> PyStr(K_choices)),
   PyDict(K_output :> PyDict(K_choices :> PyList(<<>>))),
   PyDict(K_output :> PyDict(K_choices :> PyList(<<EmptyDict>>))),
   PyDict(K_output :> PyDict(K_choices :> PyList(<<PyDict(K_message :> EmptyDict)>>)))}

Bodies == {BodyOf(c) : c \in Contents} \cup OtherBodies

\* what requests.post can do: raise, or deliver a response with a status and
\* a body that is JSON or is not; on a body that is not JSON, response.json()
\* raises an exception that derives from RequestException or, with an older
\* requests, a ValueError
Responses ==
  {[kind |-> "exception", exc |-> e] : e \in {"ConnectionError", "Timeout"}}
  \cup {[kind |-> "http", status |-> 200, json |-> TRUE, body |-> b] : b \in Bodies}
  \cup {[kind |-> "http", status |-> 200, json |-> FALSE, raises |-> e] :
          e \in {"RequestsJSONDecodeError", "ValueError"}}
  \cup {[kind |-> "http", status |-> s, json |-> TRUE, body |-> EmptyDict] : s \in {401, 500}}

EnvValues == {"<unset>", "", "sk-1"}
\* os.environ.get('QWEN_API_KEY', '')
EnvGet(v) == IF v = "<unset>" THEN "" ELSE v

ApiKeys == {"sk-1"}
\* main passes the default model; the importing caller passes a name that
\* available_models does not map
Models == {"my-model"}
Paths == {IMAGE_PATH}

\* ------------------------------------------------------------------------
\* State
\* ------------------------------------------------------------------------
VARIABLES
  mode,          \* "script": the file is run and main() is called;
                 \* "library": QwenAPIClient is used by an importing caller
  pc,            \* position of main() or of the importing caller
  env,           \* the environment variable QWEN_API_KEY
  fs,            \* what each path holds
  fsChanges,     \* number of changes other processes made to the files
  API_KEY,       \* main's local
  shown,         \* what main reported
  passed,        \* the guards of main that let it through
  client,        \* the QwenAPIClient object
  calls,         \* number of analyze_image calls started
  apc,           \* position inside analyze_image
  image_path,    \* analyze_image's argument
  existsOk,      \* the existence check of this call passed
  observed,      \* what this call found at the path: at the existence
                 \* check, and when it opened the file
  image_base64,  \* analyze_image's locals
  request,
  response,
  result,
  rawContent,    \* the content as extracted, before line 170
  content,
  ret,           \* the value analyze_image returned
  exc,           \* the exception analyze_image raised
  posts,         \* requests.post calls of this analyze_image call
  parses,        \* json.loads calls of this analyze_image call
  last           \* what the previous completed call was given and what came of it

vars == <<mode, pc, env, fs, fsChanges, API_KEY, shown, passed, client, calls, apc,
          image_path, existsOk, observed, image_base64, request, response, result,
          rawContent, content, ret, exc, posts, parses, last>>

progVars == <<mode, pc, API_KEY, shown, passed, calls, last>>
envVars == <<env, fs, fsChanges>>
frameVars == <<image_path, existsOk, observed, image_base64, request, response, result,
               rawContent, content, posts, parses>>

Unset == [t |-> "unset"]
NotLooked == [exists |-> "unseen", opened |-> "unseen"]

Init ==
  /\ mode \in {"script", "library"}
  /\ pc = "start"
  /\ env \in EnvValues
  /\ fs \in [Paths -> FileKinds]
  /\ fsChanges = 0
  /\ API_KEY = Unset
  /\ shown = "nothing"
  /\ passed = {}
  /\ client = NoClient
  /\ calls = 0
  /\ apc = "none"
  /\ image_path = Unset
  /\ existsOk = FALSE
  /\ observed = NotLooked
  /\ image_base64 = Unset
  /\ request = Unset
  /\ response = Unset
  /\ result = Unset
  /\ rawContent = Unset
  /\ content = Unset
  /\ ret = Unset
  /\ exc = "none"
  /\ posts = 0
  /\ parses = 0
  /\ last = Unset

\* Another process creates, replaces or removes a file. The program sees the
\* files only at os.path.exists and Image.open, so a change counts only while
\* one of those is still ahead.
EnvFsChange ==
  /\ fsChanges < MaxFsChanges
  /\ \/ apc \in {"a_exists", "a_encode"}
     \/ apc = "none" /\ pc \in {"start", "check_image", "construct", "call", "idle"}
  /\ \E p \in Paths, k \in FileKinds :
       /\ k # fs[p]
       /\ fs' = [fs EXCEPT ![p] = k]
  /\ fsChanges' = fsChanges + 1
  /\ UNCHANGED <<env, progVars, client, apc, frameVars, ret, exc>>

\* ------------------------------------------------------------------------
\* analyze_image, one action per step
\* ------------------------------------------------------------------------
\* entry into analyze_image(path): fresh locals
EnterAnalyze(path) ==
  /\ apc' = "a_exists"
  /\ image_path' = path
  /\ calls' = calls + 1
  /\ existsOk' = FALSE
  /\ observed' = NotLooked
  /\ image_base64' = Unset
  /\ request' = Unset
  /\ response' = Unset
  /\ result' = Unset
  /\ rawContent' = Unset
  /\ content' = Unset
  /\ ret' = Unset
  /\ exc' = "none"
  /\ posts' = 0
  /\ parses' = 0

\* analyze_image ends: it returns h.val or lets h.exc propagate
Finish(h) ==
  IF h.returned
  THEN apc' = "returned" /\ ret' = h.val /\ exc' = exc
  ELSE apc' = "raised" /\ exc' = h.exc /\ ret' = ret

\* AnalyzeCheckExists without the raise: a missing file goes on to the encoding
AnalyzeCheckExistsNoRaise ==
  /\ apc = "a_exists"
  /\ apc' = "a_encode"
  /\ existsOk' = Exists(fs[image_path])
  /\ observed' = [observed EXCEPT !.exists = IF Exists(fs[image_path]) THEN "yes" ELSE "no"]
  /\ UNCHANGED <<progVars, envVars, client, image_path, image_base64, request,
                 response, result, rawContent, content, ret, exc, posts, parses>>

\* lines 119-120
AnalyzeCheckExists ==
  /\ apc = "a_exists"
  /\ IF Exists(fs[image_path])
     THEN apc' = "a_encode" /\ existsOk' = TRUE /\ UNCHANGED <<ret, exc>>
     ELSE Finish(Propagated("FileNotFoundError")) /\ UNCHANGED existsOk
  /\ observed' = [observed EXCEPT !.exists = IF Exists(fs[image_path]) THEN "yes" ELSE "no"]
  /\ UNCHANGED <<progVars, envVars, client, image_path, image_base64, request,
                 response, result, rawContent, content, posts, parses>>

\* line 123
AnalyzeEncode ==
  /\ apc = "a_encode"
  /\ LET r == encode_image_to_base64(fs[image_path])
     IN IF r.ok
        THEN apc' = "a_build" /\ image_base64' = r.val /\ UNCHANGED <<ret, exc>>
        ELSE Finish(Propagated(r.exc)) /\ UNCHANGED image_base64
  /\ observed' = [observed EXCEPT !.opened = fs[image_path]]
  /\ UNCHANGED <<progVars, envVars, client, image_path, existsOk, request,
                 response, result, rawContent, content, posts, parses>>

\* AnalyzeBuild that stores the resolved model name in the client
AnalyzeBuildStoresModel ==
  /\ apc = "a_build"
  /\ request' = BuildRequest(client, image_base64)
  /\ client' = [client EXCEPT !.model = ActualModel(client)]
  /\ apc' = "a_post"
  /\ UNCHANGED <<progVars, envVars, image_path, existsOk, observed, image_base64,
                 response, result, rawContent, content, ret, exc, posts, parses>>

\* lines 126-155
AnalyzeBuild ==
  /\ apc = "a_build"
  /\ request' = BuildRequest(client, image_base64)
  /\ apc' = "a_post"
  /\ UNCHANGED <<progVars, envVars, client, image_path, existsOk, observed, image_base64,
                 response, result, rawContent, content, ret, exc, posts, parses>>

\* line 159
AnalyzePost ==
  /\ apc = "a_post"
  /\ \E r \in Responses :
       /\ response' = r
       /\ IF r.kind = "exception"
          THEN Finish(OuterExcept(r.exc))
          ELSE apc' = "a_status" /\ UNCHANGED <<ret, exc>>
  /\ posts' = posts + 1
  /\ UNCHANGED <<progVars, envVars, client, image_path, existsOk, observed, image_base64,
                 request, result, rawContent, content, parses>>

\* line 160
AnalyzeRaiseForStatus ==
  /\ apc = "a_status"
  /\ IF response.status >= 400
     THEN Finish(OuterExcept("HTTPError"))
     ELSE apc' = "a_json" /\ UNCHANGED <<ret, exc>>
  /\ UNCHANGED <<progVars, envVars, client, frameVars>>

\* line 163
AnalyzeResponseJson ==
  /\ apc = "a_json"
  /\ IF response.json
     THEN apc' = "a_extract" /\ result' = response.body /\ UNCHANGED <<ret, exc>>
     ELSE Finish(OuterExcept(response.raises)) /\ UNCHANGED result
  /\ UNCHANGED <<progVars, envVars, client, image_path, existsOk, observed, image_base64,
                 request, response, rawContent, content, posts, parses>>

\* lines 166-167 and 192-193
AnalyzeExtract ==
  /\ apc = "a_extract"
  /\ LET x == ExtractContent(result)
     IN CASE x.kind = "content" ->
               /\ apc' = "a_reduce"
               /\ rawContent' = x.val
               /\ content' = x.val
               /\ UNCHANGED <<ret, exc>>
          [] x.kind = "else" ->
               Finish(Returned(FormatErrorDict(result))) /\ UNCHANGED <<rawContent, content>>
          [] OTHER ->
               Finish(OuterExcept(x.exc)) /\ UNCHANGED <<rawContent, content>>
  /\ UNCHANGED <<progVars, envVars, client, image_path, existsOk, observed, image_base64,
                 request, response, result, posts, parses>>

\* lines 170-175
AnalyzeReduce ==
  /\ apc = "a_reduce"
  /\ LET r == ReduceContent(content)
     IN IF r.ok
        THEN apc' = "a_strip" /\ content' = r.val /\ UNCHANGED <<ret, exc>>
        ELSE Finish(OuterExcept(r.exc)) /\ UNCHANGED content
  /\ UNCHANGED <<progVars, envVars, client, image_path, existsOk, observed, image_base64,
                 request, response, result, rawContent, posts, parses>>

\* lines 180-184; an exception here is no JSONDecodeError, so the inner
\* except clause lets it through to the outer ones
AnalyzeStrip ==
  /\ apc = "a_strip"
  /\ LET r == StripFence(content)
     IN IF r.ok
        THEN apc' = "a_parse" /\ content' = PyStr(r.val) /\ UNCHANGED <<ret, exc>>
        ELSE Finish(OuterExcept(r.exc)) /\ UNCHANGED content
  /\ UNCHANGED <<progVars, envVars, client, image_path, existsOk, observed, image_base64,
                 request, response, result, rawContent, posts, parses>>

\* AnalyzeParse that asks the endpoint again when the answer does not parse
AnalyzeParseRetry ==
  /\ apc = "a_parse"
  /\ LET r == JsonLoads(content.s)
     IN IF r.ok
        THEN Finish(Returned(r.val))
        ELSE apc' = "a_post" /\ UNCHANGED <<ret, exc>>
  /\ parses' = parses + 1
  /\ UNCHANGED <<progVars, envVars, client, image_path, existsOk, observed, image_base64,
                 request, response, result, rawContent, content, posts>>

\* lines 186-191
AnalyzeParse ==
  /\ apc = "a_parse"
  /\ LET r == JsonLoads(content.s)
     IN IF r.ok
        THEN Finish(Returned(r.val))
        ELSE Finish(Returned(JsonErrorDict(content.s)))
  /\ parses' = parses + 1
  /\ UNCHANGED <<progVars, envVars, client, image_path, existsOk, observed, image_base64,
                 request, response, result, rawContent, content, posts>>

\* ------------------------------------------------------------------------
\* main()
\* ------------------------------------------------------------------------
\* MainCheckKey without the return: the missing key is reported and main goes on
MainCheckKeyNoReturn ==
  /\ mode = "script" /\ pc = "start"
  /\ API_KEY' = EnvGet(env)
  /\ pc' = "check_image"
  /\ IF EnvGet(env) = ""
     THEN shown' = "key_missing" /\ passed' = passed
     ELSE shown' = shown /\ passed' = passed \cup {"key"}
  /\ UNCHANGED <<mode, calls, last, envVars, client, apc, frameVars, ret, exc>>

\* lines 206-220
MainCheckKey ==
  /\ mode = "script" /\ pc = "start"
  /\ API_KEY' = EnvGet(env)
  /\ IF EnvGet(env) = ""
     THEN pc' = "returned" /\ shown' = "key_missing" /\ passed' = passed
     ELSE pc' = "check_image" /\ shown' = shown /\ passed' = passed \cup {"key"}
  /\ UNCHANGED <<mode, calls, last, envVars, client, apc, frameVars, ret, exc>>

\* lines 223-226
MainCheckImage ==
  /\ mode = "script" /\ pc = "check_image"
  /\ IF ~Exists(fs[IMAGE_PATH])
     THEN pc' = "returned" /\ shown' = "image_missing" /\ passed' = passed
     ELSE pc' = "construct" /\ shown' = shown /\ passed' = passed \cup {"image"}
  /\ UNCHANGED <<mode, API_KEY, calls, last, envVars, client, apc, frameVars, ret, exc>>

\* lines 228-232
MainConstruct ==
  /\ mode = "script" /\ pc = "construct"
  /\ client' = NewClient(API_KEY, DEFAULT_MODEL)
  /\ pc' = "call"
  /\ UNCHANGED <<mode, API_KEY, shown, passed, calls, last, envVars, apc, frameVars, ret, exc>>

\* lines 235-236, the call
MainCall ==
  /\ mode = "script" /\ pc = "call"
  /\ EnterAnalyze(IMAGE_PATH)
  /\ pc' = "in_call"
  /\ UNCHANGED <<mode, API_KEY, shown, passed, last, envVars, client>>

\* lines 236-244, after the call: an exception of analyze_image leaves main;
\* otherwise `"error" in result` picks the report, and raises when result
\* is a value without membership test
MainReport ==
  /\ mode = "script" /\ pc = "in_call"
  /\ apc \in {"returned", "raised"}
  /\ IF apc = "raised"
     THEN pc' = "raised" /\ shown' = shown
     ELSE LET hasError == PyIn(K_error, ret)
          IN IF ~hasError.ok THEN pc' = "raised" /\ shown' = shown
             ELSE /\ pc' = "returned"
                  /\ shown' = IF hasError.val THEN "analysis_failed" ELSE "analysis_result"
  /\ apc' = "none"
  /\ UNCHANGED <<mode, API_KEY, passed, calls, last, envVars, client, frameVars, ret, exc>>

\* ------------------------------------------------------------------------
\* A caller that imports the module
\* ------------------------------------------------------------------------
\* QwenAPIClient(api_key, model)
LibConstruct ==
  /\ mode = "library" /\ pc = "start"
  /\ \E k \in ApiKeys, m \in Models : client' = NewClient(k, m)
  /\ pc' = "idle"
  /\ UNCHANGED <<mode, API_KEY, shown, passed, calls, last, envVars, apc, frameVars, ret, exc>>

\* client.analyze_image(path)
LibCall ==
  /\ mode = "library" /\ pc = "idle"
  /\ calls < MaxCalls
  /\ \E p \in Paths : EnterAnalyze(p)
  /\ pc' = "in_call"
  /\ UNCHANGED <<mode, API_KEY, shown, passed, last, envVars, client>>

\* what a completed call was given and what came of it
CallRecord ==
  [observed |-> observed, response |-> response,
   outcome |-> apc, ret |-> ret, exc |-> exc]

\* the call is over; the caller goes on
LibResume ==
  /\ mode = "library" /\ pc = "in_call"
  /\ apc \in {"returned", "raised"}
  /\ last' = CallRecord
  /\ apc' = "none"
  /\ pc' = "idle"
  /\ UNCHANGED <<mode, API_KEY, shown, passed, calls, envVars, client, frameVars, ret, exc>>

Next ==
  \/ EnvFsChange
  \/ MainCheckKey
  \/ MainCheckImage
  \/ MainConstruct
  \/ MainCall
  \/ MainReport
  \/ LibConstruct
  \/ LibCall
  \/ LibResume
  \/ AnalyzeCheckExists
  \/ AnalyzeEncode
  \/ AnalyzeBuild
  \/ AnalyzePost
  \/ AnalyzeRaiseForStatus
  \/ AnalyzeResponseJson
  \/ AnalyzeExtract
  \/ AnalyzeReduce
  \/ AnalyzeStrip
  \/ AnalyzeParse

Spec == Init /\ [][Next]_vars

\* ------------------------------------------------------------------------
\* Properties
\* ------------------------------------------------------------------------
HasError(v) == v.t = "dict" /\ K_error \in DOMAIN v.d
Over == apc \in {"returned", "raised"}
\* the call went through every step and the answer parsed
Parsed == parses = 1 /\ JsonLoads(content.s).ok

\* C1: once the request is built, analyze_image lets no exception through,
\* and every call that ends without a parsed answer returns a dictionary
\* with the key "error".
C1_FailuresReturnErrorDict ==
  request # Unset /\ Over =>
    /\ apc = "returned"
    /\ (~Parsed => HasError(ret))

\* a content of an unexpected shape ended in the error dictionary of the
\* second except clause
C1_Witness ==
  /\ apc = "returned"
  /\ rawContent = PyList(<<PyInt(5)>>)
  /\ HasError(ret)
  /\ ret.d[K_error].id = "processing_failed"

\* C2: one call of analyze_image posts at most once and parses at most once.
C2_NoRetry == posts <= 1 /\ parses <= 1

\* a call that posted once, failed to parse once, and returned
C2_Witness ==
  /\ apc = "returned"
  /\ posts = 1
  /\ parses = 1
  /\ HasError(ret)
  /\ ret.d[K_error].id = "json_parse_failed"

\* C3: when the answer is a JSON document J, bare or in a markdown fence
\* (opened by three backquotes or by three backquotes and "json"), with
\* optional whitespace around the text, analyze_image returns the value of J.
C3_FencedJsonIsParsed ==
  \A J \in Docs :
    (apc = "returned" /\ rawContent.t = "str" /\ rawContent.s \in Wrappings(J))
      => ret = JsonLoads(J).val

\* C4: analyze_image returns nothing but dictionaries.
C4_ReturnsDict == apc = "returned" => ret.t = "dict"

\* two completed calls that were given the same end the same way
SameInputsSameOutcome ==
  (Over /\ last # Unset /\ last.observed = observed /\ last.response = response)
    => (last.outcome = apc /\ last.ret = ret /\ last.exc = exc)

\* C5: no step changes the constructed client, and a call that is given what
\* the previous call was given (the same file, the same response) ends as the
\* previous call ended.
C5_NoStateBetweenCalls ==
  [][(client.constructed => client' = client) /\ SameInputsSameOutcome']_vars

\* a second call returned on the inputs of the first
C5_Witness ==
  /\ calls = 2
  /\ apc = "returned"
  /\ last # Unset
  /\ last.observed = observed
  /\ last.response = response
  /\ client.constructed

\* C6: the prompt in the request is, character for character, the prompt of
\* qwen_ask.py.
C6_SamePrompt == request # Unset => request.payload.text = messages_text

\* C7: a missing file ends the call with FileNotFoundError before the image
\* is opened and before any request, and a request is sent only after the
\* existence check passed and the image was encoded.
C7_CheckAndEncodeBeforePost ==
  /\ posts >= 1 => (existsOk /\ observed.exists = "yes" /\ image_base64 # Unset)
  /\ observed.exists = "no" =>
       /\ apc \in {"raised", "none"} /\ exc = "FileNotFoundError"
       /\ observed.opened = "unseen" /\ image_base64 = Unset /\ posts = 0

\* the call on a missing file raised
C7_Witness ==
  /\ apc = "raised"
  /\ exc = "FileNotFoundError"
  /\ observed.exists = "no"
  /\ posts = 0

\* C8: whatever the shape of the content, lines 170-175 leave a str for the
\* fence stripping: a str as it is, the "text" entry of the first element of
\* a list, the empty str for an empty list, str(content) for the rest.
C8_ContentReducedToStr ==
  /\ (rawContent # Unset /\ apc \notin {"a_reduce", "a_strip", "a_parse"}) => parses = 1
  /\ apc = "a_strip" =>
       /\ content.t = "str"
       /\ rawContent.t = "str" => content = rawContent
       /\ rawContent = PyList(<<>>) => content = PyStr(<<>>)
       /\ rawContent.t \notin {"str", "list"} => content = PyStr(PyStrOf(rawContent))

\* C9: main stops at the first guard that fails, constructs the client and
\* calls analyze_image only after both guards passed, and calls it at most
\* once.
C9_MainOrder ==
  mode = "script" =>
    /\ calls <= 1
    /\ client.constructed => passed = {"key", "image"}
    /\ calls >= 1 => client.constructed
    /\ posts >= 1 => calls >= 1
    /\ (pc # "start" /\ EnvGet(env) = "") => shown = "key_missing"
    /\ shown \in {"key_missing", "image_missing"} =>
         (pc = "returned" /\ ~client.constructed /\ calls = 0 /\ posts = 0)

\* main returned at the image guard
C9_Witness ==
  /\ mode = "script"
  /\ pc = "returned"
  /\ shown = "image_missing"
  /\ passed = {"key"}

====
